---- MODULE Spec2Model ----
(***************************************************************************)
(* A model of bom_animated_radar_scraper.py: the frame compositor and loop *)
(* encoder (create_animated_radar), the loop stacker (stack_animated_gifs) *)
(* and the per-city driver (__main__) over a working directory of temp     *)
(* loop files and their sidecars.                                          *)
(*                                                                         *)
(* Four specifications share the module:                                   *)
(*   SpecComposite  one pixel coordinate through the layer compositor      *)
(*   SpecCreate     one call of create_animated_radar                      *)
(*   SpecStack      one call of stack_animated_gifs                        *)
(*   Spec           runs of __main__ over a persistent working directory   *)
(***************************************************************************)
EXTENDS Integers, Sequences, FiniteSets, TLC

VARIABLES
    \* -- SpecComposite: the layer pixels at one coordinate
    layers,        \* [background, topography, radar, locations, range] -> pixel or None
    composite,     \* the composited RGBA pixel, None before compositing
    rgb,           \* the frame pixel after convert("RGB"), None before
    \* -- SpecStack: one call of stack_animated_gifs
    stackArgs,     \* the input files (loop and sidecar per path) and the clock
    stackRet,      \* what the call returned and wrote, None before the call
    \* -- Spec: runs of __main__ over one working directory
    disk,          \* loops, sidecars: temp path -> file or None; outputs: city -> file or None
    args,          \* the flags of the current run: dev_capture, dev_process
    pc,            \* "idle" between runs, "city" at the head of the city loop, "views" inside it
    run,           \* the number of the current run
    city,          \* index of the current city record
    view,          \* index into the current city's sorted views
    temp_gifs,     \* the paths collected for the current city's stack
    attempted,     \* the paths create_animated_radar was called for in this run
    generated,     \* the paths for which it returned True in this run
    stacked,       \* the cities stack_animated_gifs was called for in this run
    lastStack,     \* the latest call of stack_animated_gifs, None before the first
    \* -- SpecCreate: one call of create_animated_radar
    createArgs,    \* the page, the network's answers and the files found at the path
    createRet      \* what the call returned and left on disk, None before the call

compVars == <<layers, composite, rgb>>
createVars == <<createArgs, createRet>>
stackVars == <<stackArgs, stackRet>>
mainVars == <<disk, args, pc, run, city, view, temp_gifs, attempted, generated, stacked,
              lastStack>>

vars == <<layers, composite, rgb, createArgs, createRet, stackArgs, stackRet,
          disk, args, pc, run, city, view, temp_gifs, attempted, generated, stacked,
          lastStack>>

\* Python's None (an absent layer, an absent file, a failed fetch) is the empty
\* tuple, and a value that is there is the one-tuple holding it.
None == << >>
Some(x) == <<x>>
Val(o) == o[1]

(***************************************************************************)
(* Pixels and the "over" blend of Image.alpha_composite                    *)
(***************************************************************************)

Shr(x, k) == x \div (2 ^ k)

\* Pillow's division by 255 in fixed point.
ShiftForDiv255(a) == Shr(Shr(a, 8) + a, 8)

\* One colour channel of Image.alpha_composite: src over dst, 7 precision bits.
BlendChannel(dstc, srcc, coef1, coef2) ==
    Shr(ShiftForDiv255(srcc * coef1 + dstc * coef2 + 128 * 128), 7)

\* composite.alpha_composite(layer) at one coordinate.
AlphaCompositePixel(dst, src) ==
    IF src.a = 0 THEN dst
    ELSE LET blend   == dst.a * (255 - src.a)
             outa255 == src.a * 255 + blend
             coef1   == (src.a * 255 * 255 * 128) \div outa255
             coef2   == 255 * 128 - coef1
         IN  [r |-> BlendChannel(dst.r, src.r, coef1, coef2),
              g |-> BlendChannel(dst.g, src.g, coef1, coef2),
              b |-> BlendChannel(dst.b, src.b, coef1, coef2),
              a |-> ShiftForDiv255(outa255 + 128)]

\* `if layer: composite.alpha_composite(layer)`: an absent layer is skipped.
OverIfPresent(dst, layer) ==
    IF layer = None THEN dst ELSE AlphaCompositePixel(dst, Val(layer))

\* The black placeholder that stands in for a background that failed to fetch.
PlaceholderPixel == [r |-> 0, g |-> 0, b |-> 0, a |-> 255]

BackgroundOrPlaceholder(bg) == IF bg = None THEN PlaceholderPixel ELSE Val(bg)

\* A mis-ordered compositor: the radar frame goes under the topography.
CompositeRadarUnderTopography(l) ==
    LET c0 == BackgroundOrPlaceholder(l.background)
        c1 == OverIfPresent(c0, l.radar)
        c2 == OverIfPresent(c1, l.topography)
        c3 == OverIfPresent(c2, l.locations)
    IN  OverIfPresent(c3, l.range)

\* Background -> Topography -> Radar -> Locations -> Range.  The canvas starts
\* as a copy of the background (paste without mask copies all four channels).
CompositePixel(l) ==
    LET c0 == BackgroundOrPlaceholder(l.background)
        c1 == OverIfPresent(c0, l.topography)
        c2 == OverIfPresent(c1, l.radar)
        c3 == OverIfPresent(c2, l.locations)
    IN  OverIfPresent(c3, l.range)

\* composite.convert("RGB"): the alpha channel is dropped, the colour kept.
ConvertRGB(p) == [r |-> p.r, g |-> p.g, b |-> p.b]

\* The colour of a layer pixel that is there, as a frame pixel.
Colour(layer) == Some(ConvertRGB(Val(layer)))

Alpha(layer) == Val(layer).a

(***************************************************************************)
(* SpecComposite                                                           *)
(***************************************************************************)

Alphas == {0, 128, 255}

Px(r, g, b) == {Some([r |-> r, g |-> g, b |-> b, a |-> a]) : a \in Alphas}

BackgroundPixels == Px(0, 0, 64) \cup Px(200, 200, 200)
TopographyPixels == Px(90, 60, 30) \cup Px(0, 0, 64)
RadarPixels      == Px(0, 255, 0) \cup Px(255, 0, 255)
LocationsPixels  == Px(255, 255, 255) \cup Px(0, 255, 0)
RangePixels      == Px(255, 0, 0) \cup Px(255, 255, 255)

LayerInputs ==
    [background : BackgroundPixels \cup {None},
     topography : TopographyPixels \cup {None},
     radar      : RadarPixels,
     locations  : LocationsPixels \cup {None},
     range      : RangePixels \cup {None}]

CompIdle == layers = None /\ composite = None /\ rgb = None

CreateIdle == createArgs = None /\ createRet = None
StackIdle == stackArgs = None /\ stackRet = None
MainIdle ==
    /\ disk = None /\ args = None /\ pc = "off" /\ run = 0 /\ city = 0 /\ view = 0
    /\ temp_gifs = << >> /\ attempted = {} /\ generated = {} /\ stacked = {}
    /\ lastStack = None

InitComposite ==
    /\ layers \in LayerInputs
    /\ composite = None
    /\ rgb = None
    /\ CreateIdle
    /\ StackIdle
    /\ MainIdle

\* Lines 97-114 at one coordinate of one surviving frame.
CompositeFrame ==
    /\ composite = None
    /\ composite' = Some(CompositePixel(layers))
    /\ rgb' = Some(ConvertRGB(CompositePixel(layers)))
    /\ UNCHANGED <<layers, createVars, stackVars, mainVars>>

NextComposite == CompositeFrame

SpecComposite == InitComposite /\ [][NextComposite]_vars


(***************************************************************************)
(* Source locator and create_animated_radar                                *)
(***************************************************************************)

Digits == {"0", "1", "2", "3", "4", "5", "6", "7", "8", "9"}

\* A frame path "<stem>.<token>.<ext>": the token is a tuple of characters and
\* neither token nor ext holds a dot.
FramePath(stem, token, ext) == [stem |-> stem, token |-> token, ext |-> ext]

\* get_image_urls: None when the page cannot be retrieved, when the page URL
\* holds no IDR<digits> product code, or when the body names no frame; else the
\* frame URLs in order of appearance, each prefixed with the base URL.
GetImageUrls(page) ==
    IF page.status # 200 \/ ~page.hasProductId \/ page.frameMatches = << >>
    THEN None
    ELSE Some([frames |-> [i \in 1..Len(page.frameMatches) |->
                  [base |-> "https://reg.bom.gov.au", path |-> page.frameMatches[i]]]])

\* re.search(r'\.(\d{12})\.png$', url): the 12-digit token, or None.
TimestampOfUrl(url) ==
    IF /\ url.path.ext = "png"
       /\ Len(url.path.token) = 12
       /\ \A i \in 1..Len(url.path.token) : url.path.token[i] \in Digits
    THEN Some(url.path.token)
    ELSE None

PlaceholderSize == <<512, 512>>

\* A frame loop that collects the surviving frames newest first.
RECURSIVE SurvivingReversed(_, _)
SurvivingReversed(fetched, i) ==
    IF i > Len(fetched) THEN << >>
    ELSE IF fetched[i] = None THEN SurvivingReversed(fetched, i + 1)
         ELSE SurvivingReversed(fetched, i + 1) \o <<i>>

\* The indices of the frame URLs whose fetch gave an image, in URL order.
RECURSIVE Surviving(_, _)
Surviving(fetched, i) ==
    IF i > Len(fetched) THEN << >>
    ELSE IF fetched[i] = None THEN Surviving(fetched, i + 1)
         ELSE <<i>> \o Surviving(fetched, i + 1)

\* Compositing a frame raises (alpha_composite: "images do not match") when a
\* layer that is there differs in size from the canvas, which has the
\* background's size.
CompositeRaises(net, canvas, i) ==
    \/ net.topography # None /\ Val(net.topography) # canvas
    \/ Val(net.frames[i]) # canvas
    \/ net.locations # None /\ Val(net.locations) # canvas
    \/ net.range # None /\ Val(net.range) # canvas

\* urls['frames'][-1]: the sidecar takes its timestamp from the last URL of the
\* list.
LastFrameUrl(frames) == frames[Len(frames)]

\* create_animated_radar(page_url, output_gif_path).  `net` holds what each
\* fetch returns (an image size, or None), `found` the loop file and sidecar
\* found at the output path, `call` tags what this call writes.
CreateAnimatedRadar(page, net, found, call) ==
    LET urls == GetImageUrls(page)
        unchanged == [ok |-> FALSE, loop |-> found.loop, sidecar |-> found.sidecar,
                      wrote |-> {}]
    IN
    IF urls = None \/ Val(urls).frames = << >> THEN unchanged
    ELSE
    LET frameUrls == Val(urls).frames
        canvas == IF net.background = None THEN PlaceholderSize
                  ELSE Val(net.background)
        kept   == Surviving(net.frames, 1)
        frames == [k \in 1..Len(kept) |->
                      [url |-> frameUrls[kept[k]], size |-> canvas]]
        match  == TimestampOfUrl(LastFrameUrl(frameUrls))
    IN
    IF \E k \in 1..Len(kept) : CompositeRaises(net, canvas, kept[k]) THEN unchanged
    ELSE IF frames = << >> THEN unchanged
    ELSE [ok |-> TRUE,
          loop |-> Some([frames |-> frames, size |-> canvas, duration |-> Some(500),
                         by |-> call]),
          sidecar |-> IF match # None
                      THEN Some([kind |-> "object", timestamp |-> match, by |-> call])
                      ELSE found.sidecar,
          wrote |-> IF match # None THEN {"loop", "sidecar"} ELSE {"loop"}]

(***************************************************************************)
(* Sidecar timestamps: strptime("%Y%m%d%H%M") and the age of a capture     *)
(***************************************************************************)

DigitValue(c) ==
    CASE c = "0" -> 0 [] c = "1" -> 1 [] c = "2" -> 2 [] c = "3" -> 3 [] c = "4" -> 4
      [] c = "5" -> 5 [] c = "6" -> 6 [] c = "7" -> 7 [] c = "8" -> 8 [] c = "9" -> 9

RECURSIVE Number(_, _, _)
\* The decimal value of characters from..to of a digit string.
Number(str, from, to) ==
    IF from > to THEN 0 ELSE Number(str, from, to - 1) * 10 + DigitValue(str[to])

IsLeap(y) == (y % 4 = 0 /\ y % 100 # 0) \/ y % 400 = 0

DaysInMonth(y, m) ==
    IF m = 2 THEN (IF IsLeap(y) THEN 29 ELSE 28)
    ELSE IF m \in {4, 6, 9, 11} THEN 30 ELSE 31

\* Days from 1970-01-01 to the civil date y-m-d (proleptic Gregorian).
DaysFromCivil(y, m, d) ==
    LET yy  == IF m <= 2 THEN y - 1 ELSE y
        era == yy \div 400
        yoe == yy - era * 400
        mp  == IF m > 2 THEN m - 3 ELSE m + 9
        doy == (153 * mp + 2) \div 5 + d - 1
        doe == yoe * 365 + yoe \div 4 - yoe \div 100 + doy
    IN  era * 146097 + doe - 719468

\* datetime.strptime(s, "%Y%m%d%H%M") for a 12-character string s, or for a
\* string holding a character that is no digit: the minute it names, counted
\* from the epoch, or None where strptime raises ValueError.
Strptime(str) ==
    IF Len(str) # 12 \/ \E i \in 1..Len(str) : str[i] \notin Digits THEN None
    ELSE LET y  == Number(str, 1, 4)
             m  == Number(str, 5, 6)
             d  == Number(str, 7, 8)
             hh == Number(str, 9, 10)
             mm == Number(str, 11, 12)
         IN  IF \/ y < 1 \/ m < 1 \/ m > 12 \/ d < 1 \/ hh > 23 \/ mm > 59 THEN None
             ELSE IF d > DaysInMonth(y, m) THEN None
             ELSE Some((DaysFromCivil(y, m, d) * 24 + hh) * 60 + mm)

\* datetime.now(timezone.utc) as seconds from the epoch.
ClockSeconds(now) ==
    ((DaysFromCivil(now.y, now.m, now.d) * 24 + now.hh) * 60 + now.mm) * 60 + now.ss

\* A threshold test that also fires at exactly 15 minutes.
IsOlderOrEqual(now, minute) == ClockSeconds(now) - minute * 60 >= 15 * 60

\* age > datetime.timedelta(minutes=15)
IsOlder(now, minute) == ClockSeconds(now) - minute * 60 > 15 * 60

\* One pass of the loop body over a sidecar: "stale", "fresh" (nothing to
\* flag, or the file is absent) or "warned" (the except branch).
SidecarVerdict(sidecar, now) ==
    IF sidecar = None THEN "fresh"
    ELSE LET data == Val(sidecar)
         IN  IF data.kind # "object" THEN "warned"
             ELSE IF data.timestamp = None \/ data.timestamp = Some(<< >>) THEN "fresh"
             ELSE LET dt == Strptime(Val(data.timestamp))
                  IN  IF dt = None THEN "warned"
                      ELSE IF IsOlder(now, Val(dt)) THEN "stale" ELSE "fresh"

\* Lines 160-179: the loop over the input paths, from index i, with its break.
RECURSIVE IsOutdated(_, _, _)
IsOutdated(sidecars, now, i) ==
    IF i > Len(sidecars) THEN FALSE
    ELSE IF SidecarVerdict(sidecars[i], now) = "stale" THEN TRUE
    ELSE IsOutdated(sidecars, now, i + 1)

\* The input indices whose sidecar the loop opened before it ended.
RECURSIVE SidecarsRead(_, _, _)
SidecarsRead(sidecars, now, i) ==
    IF i > Len(sidecars) THEN {}
    ELSE (IF sidecars[i] = None THEN {} ELSE {i})
         \cup (IF SidecarVerdict(sidecars[i], now) = "stale" THEN {}
               ELSE SidecarsRead(sidecars, now, i + 1))

(***************************************************************************)
(* stack_animated_gifs                                                     *)
(***************************************************************************)

HeaderHeight == 16
DividerHeight == 1

Min(S) == CHOOSE x \in S : \A y \in S : x <= y
Max(S) == CHOOSE x \in S : \A y \in S : x >= y

RECURSIVE SumHeights(_, _)
\* sum(img.height for img in cropped_frames[:n])
SumHeights(cropped, n) ==
    IF n = 0 THEN 0 ELSE SumHeights(cropped, n - 1) + cropped[n].h

\* img.crop((0, header_height, img.width, img.height)) of frame i of a loop
CropBody(gif, i) ==
    [src |-> gif.frames[i], w |-> gif.size[1], h |-> gif.size[2] - HeaderHeight]

\* A canvas height that leaves out the dividers between the panels.
TotalHeightNoDividers(cropped) ==
    SumHeights(cropped, Len(cropped)) + HeaderHeight

\* sum of cropped heights + dividers + header height
TotalHeight(cropped) ==
    LET num_dividers == Max({0, Len(cropped) - 1})
    IN  SumHeights(cropped, Len(cropped)) + num_dividers * DividerHeight + HeaderHeight

\* current_y when panel idx is pasted: the heights and dividers above it.
PanelY(cropped, idx) == SumHeights(cropped, idx - 1) + (idx - 1) * DividerHeight

\* A frame loop that takes every panel from the loops' first frame.
StackFrameFirstOnly(gifs, i, is_outdated) ==
    LET cropped == [g \in 1..Len(gifs) |-> CropBody(gifs[g], 1)]
        total_width == Max({cropped[g].w : g \in 1..Len(gifs)})
    IN  [w |-> total_width,
         h |-> TotalHeight(cropped),
         panels |-> [g \in 1..Len(gifs) |->
                        [src |-> cropped[g].src,
                         x |-> (total_width - cropped[g].w) \div 2,
                         y |-> PanelY(cropped, g),
                         w |-> cropped[g].w, h |-> cropped[g].h]],
         header |-> [src |-> gifs[1].frames[1], x |-> 0,
                     y |-> PanelY(cropped, Len(gifs) + 1) - DividerHeight,
                     w |-> gifs[1].size[1], h |-> HeaderHeight],
         badge |-> is_outdated]

\* Lines 208-320: output frame i, from frame i of every opened loop.  The
\* badge is drawn onto the finished canvas and leaves its size alone.
StackFrame(gifs, i, is_outdated) ==
    LET cropped == [g \in 1..Len(gifs) |-> CropBody(gifs[g], i)]
        total_width == Max({cropped[g].w : g \in 1..Len(gifs)})
    IN  [w |-> total_width,
         h |-> TotalHeight(cropped),
         panels |-> [g \in 1..Len(gifs) |->
                        [src |-> cropped[g].src,
                         x |-> (total_width - cropped[g].w) \div 2,
                         y |-> PanelY(cropped, g),
                         w |-> cropped[g].w, h |-> cropped[g].h]],
         header |-> [src |-> gifs[1].frames[i], x |-> 0,
                     y |-> PanelY(cropped, Len(gifs) + 1) - DividerHeight,
                     w |-> gifs[1].size[1], h |-> HeaderHeight],
         badge |-> is_outdated]

\* stack_animated_gifs(gif_paths, output_path).  `files` holds, per input
\* path in order, the loop file and the sidecar found there (None: no such
\* file); `now` is the clock.  The result tells whether the call succeeded,
\* the stacked loop it wrote (None: nothing written) and the sidecars it read.
StackAnimatedGifs(files, now) ==
    LET failed == [ok |-> FALSE, out |-> None, read |-> {}]
    IN
    IF \E p \in 1..Len(files) : files[p].loop = None THEN failed
    ELSE IF files = << >> THEN failed
    ELSE
    LET gifs     == [p \in 1..Len(files) |-> Val(files[p].loop)]
        sidecars == [p \in 1..Len(files) |-> files[p].sidecar]
        is_outdated == IsOutdated(sidecars, now, 1)
        n_frames == Min({Len(gifs[p].frames) : p \in 1..Len(gifs)})
        frames   == [i \in 1..n_frames |-> StackFrame(gifs, i, is_outdated)]
        read     == [ok |-> FALSE, out |-> None,
                     read |-> SidecarsRead(sidecars, now, 1)]
    IN
    IF frames = << >> THEN read
    ELSE [ok |-> TRUE,
          out |-> Some([frames |-> frames,
                        duration |-> IF gifs[1].duration = None THEN 500
                                     ELSE Val(gifs[1].duration)]),
          read |-> SidecarsRead(sidecars, now, 1)]

(***************************************************************************)
(* SpecStack                                                               *)
(***************************************************************************)

\* The longest list of input loops.
MaxLoops == 3

\* A loop file of n frames of the given size; frame j carries the tag and j.
LoopFile(tag, w, h, n, duration) ==
    Some([frames |-> [j \in 1..n |-> [url |-> <<tag, j>>, size |-> <<w, h>>]],
          size |-> <<w, h>>, duration |-> duration, by |-> 0])

LoopChoices ==
    {LoopFile("a", 50, 20, 2, Some(500)),
     LoopFile("b", 60, 30, 3, None),
     LoopFile("c", 55, 40, 2, Some(100)),
     None}

\* Sidecar timestamps around the two clocks below.
Token2354 == <<"2","0","2","5","1","1","3","0","2","3","5","4">>
Token2355 == <<"2","0","2","5","1","1","3","0","2","3","5","5">>
Token2360 == <<"2","0","2","5","1","1","3","0","2","3","6","0">>

Sidecar(kind, timestamp) == Some([kind |-> kind, timestamp |-> timestamp, by |-> 0])

SidecarChoices ==
    {None,
     Sidecar("garbage", None),
     Sidecar("object", Some(Token2360)),
     Sidecar("object", Some(Token2355)),
     Sidecar("object", Some(Token2354))}

\* 2025-12-01 00:09:00 UTC and a minute later.
Clocks ==
    {[y |-> 2025, m |-> 12, d |-> 1, hh |-> 0, mm |-> 9, ss |-> 0],
     [y |-> 2025, m |-> 12, d |-> 1, hh |-> 0, mm |-> 10, ss |-> 0]}

InputFiles == [loop : LoopChoices, sidecar : SidecarChoices]

InitStack ==
    /\ \E n \in 0..MaxLoops : \E files \in [1..n -> InputFiles] : \E now \in Clocks :
          stackArgs = Some([files |-> files, now |-> now])
    /\ stackRet = None
    /\ CompIdle
    /\ CreateIdle
    /\ MainIdle

CallStack ==
    /\ stackRet = None
    /\ stackRet' = Some(StackAnimatedGifs(Val(stackArgs).files, Val(stackArgs).now))
    /\ UNCHANGED <<stackArgs, compVars, createVars, mainVars>>

NextStack == CallStack

SpecStack == InitStack /\ [][NextStack]_vars

(***************************************************************************)
(* SpecCreate                                                              *)
(***************************************************************************)

\* The longest frame list a page names.
MaxFrames == 3

Token1000 == <<"2","0","2","5","1","1","2","7","1","0","0","0">>
Token1006 == <<"2","0","2","5","1","1","2","7","1","0","0","6">>
Token1012 == <<"2","0","2","5","1","1","2","7","1","0","1","2">>

FramePaths ==
    {FramePath("/radar/IDR714.T", Token1000, "png"),
     FramePath("/radar/IDR714.T", Token1006, "png"),
     FramePath("/radar/IDR714.T", Token1012, "png"),
     FramePath("/radar/IDR714.T", <<"l","a","t","e","s","t">>, "png")}

\* Frame lists without repetition: each capture appears once on a page.
FrameLists ==
    UNION {{s \in [1..n -> FramePaths] : \A i, j \in 1..n : s[i] = s[j] => i = j}
              : n \in 0..MaxFrames}

NativeSize == <<512, 512>>
OddSize == <<256, 256>>

Pages ==
    {[status |-> 200, hasProductId |-> TRUE, frameMatches |-> fl] : fl \in FrameLists}
    \cup {[status |-> 404, hasProductId |-> TRUE, frameMatches |-> << >>],
          [status |-> 200, hasProductId |-> FALSE, frameMatches |-> <<FramePath("/radar/IDR714.T", Token1000, "png")>>]}

Nets(n) ==
    [background : {None, Some(NativeSize)},
     topography : {None, Some(NativeSize)},
     locations  : {None, Some(NativeSize)},
     range      : {None, Some(NativeSize)},
     frames     : [1..n -> {None, Some(NativeSize), Some(OddSize)}]]

OldLoop ==
    Some([frames |-> <<[url |-> [base |-> "https://reg.bom.gov.au",
                                 path |-> FramePath("/radar/IDR714.T", Token1000, "png")],
                        size |-> NativeSize]>>,
          size |-> NativeSize, duration |-> Some(500), by |-> 0])

OldSidecar == Some([kind |-> "object", timestamp |-> Some(Token1000), by |-> 0])

Disks == {[loop |-> None, sidecar |-> None], [loop |-> OldLoop, sidecar |-> OldSidecar]}

InitCreate ==
    /\ \E page \in Pages : \E net \in Nets(Len(page.frameMatches)) : \E found \in Disks :
          createArgs = Some([page |-> page, net |-> net, disk |-> found])
    /\ createRet = None
    /\ CompIdle
    /\ StackIdle
    /\ MainIdle

CallCreate ==
    /\ createRet = None
    /\ createRet' = Some(CreateAnimatedRadar(Val(createArgs).page, Val(createArgs).net,
                                             Val(createArgs).disk, 1))
    /\ UNCHANGED <<createArgs, compVars, stackVars, mainVars>>

NextCreate == CallCreate

SpecCreate == InitCreate /\ [][NextCreate]_vars

(***************************************************************************)
(* __main__: the per-city driver                                           *)
(***************************************************************************)

\* The first index of a digit in a label, 0 when it holds none.
FirstDigit(label) ==
    IF \E i \in 1..Len(label) : label[i] \in Digits
    THEN Min({i \in 1..Len(label) : label[i] \in Digits})
    ELSE 0

\* The last index of the run of digits that starts at index i.
RunEnd(label, i) ==
    Max({j \in i..Len(label) : \A k \in i..j : label[k] \in Digits})

\* parse_range: the first run of digits of the label as an integer, else 9999.
ParseRange(label) ==
    IF FirstDigit(label) = 0 THEN 9999
    ELSE Number(label, FirstDigit(label), RunEnd(label, FirstDigit(label)))

\* Insert a view behind every view whose range is not larger (a stable sort).
RECURSIVE InsertByRange(_, _)
InsertByRange(sorted, item) ==
    IF sorted = << >> THEN <<item>>
    ELSE IF ParseRange(item.label) < ParseRange(Head(sorted).label)
         THEN <<item>> \o sorted
         ELSE <<Head(sorted)>> \o InsertByRange(Tail(sorted), item)

RECURSIVE SortPrefix(_, _)
SortPrefix(views, n) ==
    IF n = 0 THEN << >> ELSE InsertByRange(SortPrefix(views, n - 1), views[n])

\* A driver that takes the views in the order the configuration lists them.
ViewsInConfigOrder(views) == views

\* sorted(views.items(), key=lambda item: parse_range(item[0]))
SortedViews(views) == SortPrefix(views, Len(views))

\* temp_<FriendlyName>_<rangeLabel>.gif; its sidecar is that path + ".json".
TempFilename(friendly_name, range_key) == <<friendly_name, range_key>>

TargetCities ==
    {"Sydney", "Melbourne", "Brisbane", "Perth", "Adelaide", "Hobart", "Darwin", "Canberra"}

\* A cleanup that runs after every successful stack, whatever the flags.
CleanupAlways(a) == TRUE

\* `if not (args.dev_capture or args.dev_process)`
ShouldCleanup(a) == ~(a.dev_capture \/ a.dev_process)

\* os.remove of every collected temp loop and of its sidecar.
Cleanup(d, paths) ==
    [d EXCEPT !.loops = [p \in DOMAIN d.loops |->
                            IF \E k \in 1..Len(paths) : paths[k] = p THEN None
                            ELSE d.loops[p]],
              !.sidecars = [p \in DOMAIN d.sidecars |->
                            IF \E k \in 1..Len(paths) : paths[k] = p THEN None
                            ELSE d.sidecars[p]]]

(***************************************************************************)
(* Spec                                                                    *)
(***************************************************************************)

\* The number of runs of the program over the working directory.
MaxRuns == 2

Label128km == <<"1", "2", "8", "k", "m">>
Label64km  == <<"6", "4", "k", "m">>
LabelWide  == <<"w", "i", "d", "e">>

\* bom_radars.json: the views of a city in the order the file lists them.
Cities ==
    << [City |-> "Sydney", FriendlyName |-> "Sydney",
        Views |-> << [label |-> Label128km, url |-> "IDR713"],
                     [label |-> Label64km, url |-> "IDR714"] >>],
       [City |-> "Cairns", FriendlyName |-> "Cairns",
        Views |-> << [label |-> Label64km, url |-> "IDR194"] >>],
       [City |-> "Darwin", FriendlyName |-> "Darwin", Views |-> << >>],
       [City |-> "Hobart", FriendlyName |-> "Hobart",
        Views |-> << [label |-> LabelWide, url |-> "IDR764"] >>] >>

Paths ==
    UNION {{TempFilename(Cities[c].FriendlyName, Cities[c].Views[v].label) :
               v \in 1..Len(Cities[c].Views)} : c \in 1..Len(Cities)}

FriendlyNames == {Cities[c].FriendlyName : c \in 1..Len(Cities)}

\* What the network answers to one call of create_animated_radar: a page
\* naming one frame, with or without a timestamp in its URL, and the outcome
\* of each fetch; or no page.
Upstream ==
    LET pageOf(fl) == [status |-> 200, hasProductId |-> TRUE, frameMatches |-> fl]
        netOf(fr) == [background |-> Some(NativeSize), topography |-> Some(NativeSize),
                      locations |-> Some(NativeSize), range |-> None, frames |-> fr]
        p2 == FramePath("/radar/IDR714.T", Token1006, "png")
        p3 == FramePath("/radar/IDR714.T", <<"l","a","t","e","s","t">>, "png")
    IN  {[page |-> pageOf(<<p2>>), net |-> netOf(<<Some(NativeSize)>>)],
         [page |-> pageOf(<<p3>>), net |-> netOf(<<Some(NativeSize)>>)],
         [page |-> pageOf(<<p2>>), net |-> netOf(<<None>>)],
         [page |-> [status |-> 404, hasProductId |-> TRUE, frameMatches |-> << >>],
          net |-> netOf(<< >>)]}

\* 2025-11-27 10:10 UTC and 10:30 UTC: the 10:06 capture is fresh, then stale.
MainClocks ==
    {[y |-> 2025, m |-> 11, d |-> 27, hh |-> 10, mm |-> 10, ss |-> 0],
     [y |-> 2025, m |-> 11, d |-> 27, hh |-> 10, mm |-> 30, ss |-> 0]}

Init ==
    /\ disk = Some([loops |-> [p \in Paths |-> None],
                    sidecars |-> [p \in Paths |-> None],
                    outputs |-> [f \in FriendlyNames |-> None]])
    /\ args = None
    /\ pc = "idle"
    /\ run = 0
    /\ city = 0
    /\ view = 0
    /\ temp_gifs = << >>
    /\ attempted = {}
    /\ generated = {}
    /\ stacked = {}
    /\ lastStack = None
    /\ CompIdle /\ CreateIdle /\ StackIdle

Others == <<compVars, createVars, stackVars>>

Disk == Val(disk)
Args == Val(args)
CurrentCity == Cities[city]
CurrentViews == SortedViews(CurrentCity.Views)

\* Lines 348-364: a run starts with its flags parsed and the configuration read.
StartRun ==
    /\ pc = "idle"
    /\ run < MaxRuns
    /\ \E c, p \in BOOLEAN : args' = Some([dev_capture |-> c, dev_process |-> p])
    /\ run' = run + 1
    /\ pc' = "city"
    /\ city' = 1
    /\ view' = 0
    /\ temp_gifs' = << >>
    /\ attempted' = {}
    /\ generated' = {}
    /\ stacked' = {}
    /\ UNCHANGED <<disk, lastStack, Others>>

\* Lines 367-377: a city outside the target list, or without views, is passed over.
SkipCity ==
    /\ pc = "city"
    /\ city <= Len(Cities)
    /\ CurrentCity.City \notin TargetCities \/ CurrentCity.Views = << >>
    /\ city' = city + 1
    /\ UNCHANGED <<disk, args, pc, run, view, temp_gifs, attempted, generated, stacked,
                   lastStack, Others>>

\* Lines 379-382: the views are sorted and the list of temp loops starts empty.
EnterCity ==
    /\ pc = "city"
    /\ city <= Len(Cities)
    /\ CurrentCity.City \in TargetCities /\ CurrentCity.Views # << >>
    /\ pc' = "views"
    /\ view' = 1
    /\ temp_gifs' = << >>
    /\ UNCHANGED <<disk, args, run, city, attempted, generated, stacked, lastStack, Others>>

\* Lines 384-398 with should_generate: the path is appended, the loop is
\* generated, and the path is popped again when generation failed.
GenerateView ==
    /\ pc = "views"
    /\ view <= Len(CurrentViews)
    /\ ~Args.dev_process
    /\ \E up \in Upstream :
          LET temp_filename == TempFilename(CurrentCity.FriendlyName, CurrentViews[view].label)
              r == CreateAnimatedRadar(up.page, up.net,
                                       [loop |-> Disk.loops[temp_filename],
                                        sidecar |-> Disk.sidecars[temp_filename]], run)
          IN  /\ disk' = Some([Disk EXCEPT !.loops[temp_filename] = r.loop,
                                           !.sidecars[temp_filename] = r.sidecar])
              /\ temp_gifs' = IF r.ok THEN Append(temp_gifs, temp_filename) ELSE temp_gifs
              /\ attempted' = attempted \cup {temp_filename}
              /\ generated' = IF r.ok THEN generated \cup {temp_filename} ELSE generated
    /\ view' = view + 1
    /\ UNCHANGED <<args, pc, run, city, stacked, lastStack, Others>>

\* Lines 384-391 in process-only mode: the path is appended, nothing is generated.
KeepView ==
    /\ pc = "views"
    /\ view <= Len(CurrentViews)
    /\ Args.dev_process
    /\ temp_gifs' = Append(temp_gifs,
                           TempFilename(CurrentCity.FriendlyName, CurrentViews[view].label))
    /\ view' = view + 1
    /\ UNCHANGED <<disk, args, pc, run, city, attempted, generated, stacked, lastStack,
                   Others>>

\* Lines 400-403, 426-427: capture-only mode does not stack.
SkipStack ==
    /\ pc = "views"
    /\ view > Len(CurrentViews)
    /\ Args.dev_capture
    /\ pc' = "city"
    /\ city' = city + 1
    /\ UNCHANGED <<disk, args, run, view, temp_gifs, attempted, generated, stacked,
                   lastStack, Others>>

\* Lines 405-406, 424-425: nothing to stack.
NothingToStack ==
    /\ pc = "views"
    /\ view > Len(CurrentViews)
    /\ ~Args.dev_capture
    /\ temp_gifs = << >>
    /\ pc' = "city"
    /\ city' = city + 1
    /\ UNCHANGED <<disk, args, run, view, temp_gifs, attempted, generated, stacked,
                   lastStack, Others>>

\* Lines 405-423: the collected loops are stacked into <FriendlyName>.gif and,
\* after a successful stack outside the two partial modes, removed with their
\* sidecars.
StackCity ==
    /\ pc = "views"
    /\ view > Len(CurrentViews)
    /\ ~Args.dev_capture
    /\ temp_gifs # << >>
    /\ \E now \in MainClocks :
          LET files == [k \in 1..Len(temp_gifs) |->
                           [loop |-> Disk.loops[temp_gifs[k]],
                            sidecar |-> Disk.sidecars[temp_gifs[k]]]]
              r == StackAnimatedGifs(files, now)
              written == IF r.ok
                         THEN [Disk EXCEPT !.outputs[CurrentCity.FriendlyName] = r.out]
                         ELSE Disk
          IN  /\ disk' = Some(IF r.ok /\ ShouldCleanup(Args)
                              THEN Cleanup(written, temp_gifs) ELSE written)
              /\ lastStack' = Some([run |-> run, city |-> city, handed |-> temp_gifs,
                                    ok |-> r.ok,
                                    read |-> {[path |-> temp_gifs[k],
                                               loopBy |-> Val(files[k].loop).by,
                                               sidecarBy |-> Val(files[k].sidecar).by]
                                                : k \in r.read}])
    /\ stacked' = stacked \cup {city}
    /\ pc' = "city"
    /\ city' = city + 1
    /\ UNCHANGED <<args, run, view, temp_gifs, attempted, generated, Others>>

\* The city loop has run out: the program exits.
FinishRun ==
    /\ pc = "city"
    /\ city > Len(Cities)
    /\ pc' = "idle"
    /\ UNCHANGED <<disk, args, run, city, view, temp_gifs, attempted, generated, stacked,
                   lastStack, Others>>

Next ==
    \/ StartRun
    \/ SkipCity
    \/ EnterCity
    \/ GenerateView
    \/ KeepView
    \/ SkipStack
    \/ NothingToStack
    \/ StackCity
    \/ FinishRun

Spec == Init /\ [][Next]_vars

----
\* The temp paths of the configuration, spelled out.
Sydney64  == <<"Sydney", <<"6", "4", "k", "m">>>>
Sydney128 == <<"Sydney", <<"1", "2", "8", "k", "m">>>>
HobartWide == <<"Hobart", <<"w", "i", "d", "e">>>>

\* The range each path's label names ("wide" names none).
RangeOf(path) ==
    CASE path = Sydney64 -> 64 [] path = Sydney128 -> 128 [] path = HobartWide -> 9999

PathsOfCity(c) == {p \in Paths : p[1] = Cities[c].FriendlyName}

DefaultMode == args # None /\ ~Args.dev_capture /\ ~Args.dev_process
ProcessOnly == args # None /\ ~Args.dev_capture /\ Args.dev_process

Handed == {Val(lastStack).handed[k] : k \in 1..Len(Val(lastStack).handed)}

\* C4 (as stated): in process-only mode the stacker stacks whatever temp loops
\* of the city exist: when some exist, those and only those are handed to it
\* and the stack succeeds.  (In this mode nothing is written or removed before
\* the stack, so the disk still shows which loops existed.)
C4_StacksWhateverExists ==
    (ProcessOnly /\ lastStack # None /\ Val(lastStack).run = run) =>
        LET existing == {p \in PathsOfCity(Val(lastStack).city) : Disk.loops[p] # None}
        IN  existing # {} => (Val(lastStack).ok /\ Handed = existing)

\* C5: a step removes a temp loop or a sidecar only when it is the stack of
\* that file's city, the stack returned success, and neither --dev-capture nor
\* --dev-process is set; every other step leaves each existing file in place.
C5_DeleteOnlyAfterSuccessfulStack ==
    [][\A p \in Paths :
          (\/ Disk.loops[p] # None /\ Disk'.loops[p] = None
           \/ Disk.sidecars[p] # None /\ Disk'.sidecars[p] = None)
          => /\ ~Args.dev_capture /\ ~Args.dev_process
             /\ lastStack' # None
             /\ Val(lastStack').run = run /\ Val(lastStack').city = city
             /\ Val(lastStack').ok
             /\ p \in PathsOfCity(city)
             /\ \E k \in 1..Len(temp_gifs) : temp_gifs[k] = p]_vars

\* A default run has just stacked Sydney and the loop it generated is gone.
C5_Witness ==
    /\ DefaultMode
    /\ lastStack # None /\ Val(lastStack).run = run /\ Val(lastStack).ok
    /\ Val(lastStack).city = 1 /\ city = 2
    /\ Sydney64 \in generated
    /\ Disk.loops[Sydney64] = None /\ Disk.sidecars[Sydney64] = None
    /\ Disk.outputs["Sydney"] # None

\* C8: in the default mode the loops handed to the stacker are exactly the
\* city's views generated successfully in this run, each once, smallest range
\* first; and when the run ends every view of every processed city has been
\* attempted and every city with a generated view has been stacked, whatever
\* failed before it.
C8_HandedAreGeneratedInRangeOrder ==
    DefaultMode =>
        /\ (lastStack # None /\ Val(lastStack).run = run) =>
              LET h == Val(lastStack).handed
              IN  /\ Handed = generated \cap PathsOfCity(Val(lastStack).city)
                  /\ \A k, l \in 1..Len(h) : k < l => RangeOf(h[k]) < RangeOf(h[l])
        /\ (pc = "idle" /\ run > 0) =>
              /\ attempted = {Sydney64, Sydney128, HobartWide}
              /\ stacked = {c \in 1..Len(Cities) : generated \cap PathsOfCity(c) # {}}

\* A default run has ended in which Sydney's 128 km view failed: its 64 km
\* view alone was stacked, and Hobart was generated and stacked after it.
C8_Witness ==
    /\ DefaultMode
    /\ pc = "idle" /\ run > 0
    /\ attempted = {Sydney64, Sydney128, HobartWide}
    /\ generated = {Sydney64, HobartWide}
    /\ stacked = {1, 4}
    /\ lastStack # None /\ Val(lastStack).run = run
    /\ Val(lastStack).handed = <<HobartWide>>

\* C10 (as stated): every sidecar the stacker reads was written by the call
\* that wrote the loop it sits next to, and between runs a sidecar exists only
\* next to a loop written by the same call.
C10_SidecarSharesLoopLifecycle ==
    /\ lastStack # None => \A e \in Val(lastStack).read : e.sidecarBy = e.loopBy
    /\ pc = "idle" =>
          \A p \in Paths :
              Disk.sidecars[p] # None =>
                  /\ Disk.loops[p] # None
                  /\ Val(Disk.sidecars[p]).by = Val(Disk.loops[p]).by

----
\* What the stacker was given and what it left.
StFiles == Val(stackArgs).files
StNow   == Val(stackArgs).now
StRet   == Val(stackRet)
StOut   == Val(StRet.out)
StLoop(p) == Val(StFiles[p].loop)

RECURSIVE SumBodies(_)
\* The sum of T_i - 16 over the first n input loops.
SumBodies(n) == IF n = 0 THEN 0 ELSE SumBodies(n - 1) + (StLoop(n).size[2] - 16)

\* C1: every frame stack_animated_gifs writes is max(W_i) wide and
\* sum(T_i - 16) + (N - 1) + 16 high, N the number of input loops, with or
\* without the badge drawn on it.
C1_CanvasSize ==
    (stackRet # None /\ StRet.ok) =>
        \A j \in 1..Len(StOut.frames) :
            /\ \E p \in 1..Len(StFiles) : StOut.frames[j].w = StLoop(p).size[1]
            /\ \A p \in 1..Len(StFiles) : StOut.frames[j].w >= StLoop(p).size[1]
            /\ StOut.frames[j].h = SumBodies(Len(StFiles)) + (Len(StFiles) - 1) + 16

\* Loops of 50x20, 60x30 and 55x40 with a stale sidecar: 60x60 frames that
\* carry the badge.
C1_Witness ==
    /\ stackRet # None /\ StRet.ok
    /\ Len(StFiles) = 3
    /\ StLoop(1).size = <<50, 20>> /\ StLoop(2).size = <<60, 30>>
    /\ StLoop(3).size = <<55, 40>>
    /\ \A j \in 1..Len(StOut.frames) :
          StOut.frames[j].badge /\ StOut.frames[j].w = 60 /\ StOut.frames[j].h = 60

\* The sidecar timestamps more than 15 minutes old on each clock.  At 00:09
\* on 1 December, 23:55 of the day before is 14 minutes old and 23:54 exactly
\* 15; at 00:10 they are exactly 15 and 16 minutes old.  Only the last is stale.
OlderThan15Min(now) ==
    IF now.mm = 10 THEN {Token2354} ELSE {}

StaleSidecar(p) ==
    /\ StFiles[p].sidecar # None
    /\ Val(StFiles[p].sidecar).kind = "object"
    /\ Val(StFiles[p].sidecar).timestamp # None
    /\ Val(Val(StFiles[p].sidecar).timestamp) \in OlderThan15Min(StNow)

\* C2: the stack succeeds whenever every input loop opens, whatever the
\* sidecars hold, and every frame it writes carries the badge if and only if
\* some input has a sidecar that parses to a timestamp more than 15 minutes
\* before the clock (14 min and exactly 15 min: no badge; 16 min: badge).
C2_StaleIffSomeSidecarOlder ==
    stackRet # None =>
        /\ StRet.ok <=> (StFiles # << >> /\ \A p \in 1..Len(StFiles) : StFiles[p].loop # None)
        /\ StRet.ok =>
              \A j \in 1..Len(StOut.frames) :
                  StOut.frames[j].badge <=> \E p \in 1..Len(StFiles) : StaleSidecar(p)

\* An unparsable sidecar first, a missing one second, a 16-minute-old one
\* third: the stack succeeds and is flagged.
C2_Witness ==
    /\ stackRet # None /\ StRet.ok
    /\ StNow.mm = 10
    /\ Len(StFiles) = 3
    /\ StFiles[1].sidecar = Sidecar("garbage", None)
    /\ StFiles[2].sidecar = None
    /\ StFiles[3].sidecar = Sidecar("object", Some(Token2354))
    /\ StOut.frames[1].badge

\* C9: the stacked loop has min(c_i) frames; frame j shows frame j of every
\* input loop, one panel per loop, top to bottom in input order, and below
\* them the header band of the first loop's frame j.
C9_MinFramesAligned ==
    (stackRet # None /\ StRet.ok) =>
        /\ \A p \in 1..Len(StFiles) : Len(StOut.frames) <= Len(StLoop(p).frames)
        /\ \E p \in 1..Len(StFiles) : Len(StOut.frames) = Len(StLoop(p).frames)
        /\ \A j \in 1..Len(StOut.frames) :
              LET f == StOut.frames[j]
              IN  /\ Len(f.panels) = Len(StFiles)
                  /\ \A p \in 1..Len(StFiles) : f.panels[p].src = StLoop(p).frames[j]
                  /\ \A p \in 1..(Len(StFiles) - 1) :
                        f.panels[p].y + f.panels[p].h < f.panels[p + 1].y
                  /\ f.header.src = StLoop(1).frames[j]
                  /\ f.header.y = f.panels[Len(StFiles)].y + f.panels[Len(StFiles)].h
                  /\ f.header.y + 16 = f.h

\* A 3-frame loop stacked over a 2-frame loop: two frames out, the second
\* built from frame 2 of both, the header from the 3-frame loop.
C9_Witness ==
    /\ stackRet # None /\ StRet.ok
    /\ Len(StFiles) = 2
    /\ Len(StLoop(1).frames) = 3 /\ Len(StLoop(2).frames) = 2
    /\ Len(StOut.frames) = 2
    /\ StOut.frames[2].panels[2].src = StLoop(2).frames[2]
    /\ StOut.frames[2].header.src = StLoop(1).frames[2]

----
\* What the call was given and what it left.
CrPage == Val(createArgs).page
CrNet  == Val(createArgs).net
CrDisk == Val(createArgs).disk
CrRet  == Val(createRet)

Fetched == {i \in 1..Len(CrNet.frames) : CrNet.frames[i] # None}

\* The k-th frame URL whose fetch succeeded, counted in page order.
KthFetched(k) ==
    CHOOSE i \in Fetched : Cardinality({j \in Fetched : j <= i}) = k

Located == CrPage.status = 200 /\ CrPage.hasProductId

AllSizesAgree ==
    LET canvas == IF CrNet.background = None THEN PlaceholderSize
                  ELSE Val(CrNet.background)
    IN  /\ \A l \in {CrNet.topography, CrNet.locations, CrNet.range} :
              l = None \/ Val(l) = canvas
        /\ \A i \in Fetched : Val(CrNet.frames[i]) = canvas

\* C3 (as stated): the timestamp create_animated_radar stores in the sidecar is
\* the 12-digit token of the URL of the last frame that is in the written loop,
\* also when trailing frame fetches failed.
C3_TimestampOfLastSurvivingFrame ==
    (createRet # None /\ CrRet.ok /\ "sidecar" \in CrRet.wrote) =>
        LET written == Val(CrRet.loop).frames
        IN  TimestampOfUrl(written[Len(written)].url)
                = Val(CrRet.sidecar).timestamp

----
\* C6 (as stated) in SpecComposite: wherever the radar frame is fully opaque the composited pixel
\* has the radar frame's colour, and wherever the radar frame is fully transparent
\* under an opaque locations pixel it has the locations colour, whatever the
\* alpha of the other layers at that coordinate.
C6_AsStated ==
    rgb # None =>
        /\ Alpha(layers.radar) = 255 => rgb = Colour(layers.radar)
        /\ (Alpha(layers.radar) = 0 /\ layers.locations # None /\ Alpha(layers.locations) = 255)
              => rgb = Colour(layers.locations)

Clear(layer) == layer = None \/ Alpha(layer) = 0

\* C6 (amended): the radar frame's colour shows at an opaque radar pixel when
\* the locations and range layers above it are absent or fully transparent
\* there; the locations colour shows at a transparent radar pixel under an opaque
\* locations pixel when the range layer above it is absent or fully transparent.
\* The layers below (background, topography) may have any alpha.
C6_LayerOrder ==
    rgb # None =>
        /\ (Alpha(layers.radar) = 255 /\ Clear(layers.locations) /\ Clear(layers.range))
              => rgb = Colour(layers.radar)
        /\ (Alpha(layers.radar) = 0 /\ layers.locations # None /\ Alpha(layers.locations) = 255
                /\ Clear(layers.range))
              => rgb = Colour(layers.locations)

\* An opaque radar pixel over an opaque topography pixel of another colour,
\* nothing above it: the radar colour is what the frame shows.
C6_Witness ==
    /\ rgb # None
    /\ Alpha(layers.radar) = 255
    /\ layers.topography # None /\ Alpha(layers.topography) = 255
    /\ Clear(layers.locations) /\ Clear(layers.range)
    /\ Colour(layers.topography) # Colour(layers.radar)
    /\ rgb = Colour(layers.radar)

====
